---------------------------- MODULE Spec2Model ----------------------------
(***************************************************************************)
(* Model of the MCP tool handlers of src/src/index.ts (the namespace       *)
(* routing and multi-namespace access layer) over the static tables of     *)
(* env.ts (src/unnamed/part_000).                                          *)
(*                                                                         *)
(* One tool invocation runs at a time.  Every await on a KV call is a      *)
(* step; a KV call either succeeds or throws.  Arguments reach a handler   *)
(* only after the declared input schema accepted them.                     *)
(***************************************************************************)
EXTENDS Integers, Sequences, FiniteSets, TLC

(***************************************************************************)
(* Bounds of the model.                                                    *)
(***************************************************************************)
\* Largest page size the store hands out in one list call (the store clamps
\* the requested limit to its own maximum).
StorePageMax == 2
\* The page-call counter of listAllKeys saturates at this value.
MaxPages == 5

(***************************************************************************)
(* Program constants.                                                      *)
(***************************************************************************)
ListAllLimit == 1000
ProbeLimit == 1
BulkMax == 100
MoreThanOne == -1

(***************************************************************************)
(* JavaScript values.  Every value is a record with a tag t.               *)
(***************************************************************************)
JSUndefined == [t |-> "undefined", v |-> ""]
JSKV(b) == [t |-> "kv", v |-> b]
\* a member of Object.prototype reached through the prototype chain
JSInherited(n) == [t |-> "inherited", v |-> n]
JSString(s) == [t |-> "string", v |-> s]
JSMapping(b, h) == [t |-> "mapping", v |-> b, humanName |-> h]

\* Property names every plain object inherits from Object.prototype.
ObjectPrototypeKeys ==
  {"constructor", "toString", "toLocaleString", "valueOf", "hasOwnProperty",
   "isPrototypeOf", "propertyIsEnumerable", "__proto__"}

\* JS truthiness of the values above ("" is the only falsy string).
Truthy(x) == x.t # "undefined" /\ ~(x.t = "string" /\ x.v = "")

(***************************************************************************)
(* env.ts: the bindings and the two static tables.                         *)
(***************************************************************************)
\* interface Env: the declared bindings
DeclaredEnv ==
  {"BRIDGE_ACCOUNTS",
   "KV_COURT_OF_APPEAL", "KV_CHANCERY", "KV_ADMIN_COURT", "KV_KINGS_BENCH",
   "KV_SUPREME", "KV_CLERKENWELL", "KV_CENTRAL_LONDON",
   "KV_LIU", "KV_HK_LAW", "KV_LESSEL", "KV_LETTING_AGENTS", "KV_BARRISTERS",
   "KV_GLD", "KV_US_STATE_DEPT", "KV_ESTONIA",
   "KV_HMCTS", "KV_ICO", "KV_PHSO", "KV_BAR_STANDARDS", "KV_PARLIAMENT"}

\* The binding email_store reads as env.EMAIL_BODIES; interface Env does not
\* declare it, so a deployment may or may not bind it.
BodiesBinding == "EMAIL_BODIES"

AllBindings == DeclaredEnv \cup {BodiesBinding}

\* NAMESPACE_MAP, in insertion order (Object.keys / Object.entries order)
NAMESPACE_MAP ==
  << <<"bridge-accounts", "BRIDGE_ACCOUNTS">>,
     <<"court-of-appeal", "KV_COURT_OF_APPEAL">>,
     <<"chancery", "KV_CHANCERY">>,
     <<"admin-court", "KV_ADMIN_COURT">>,
     <<"kings-bench", "KV_KINGS_BENCH">>,
     <<"supreme", "KV_SUPREME">>,
     <<"clerkenwell", "KV_CLERKENWELL">>,
     <<"central-london", "KV_CENTRAL_LONDON">>,
     <<"liu", "KV_LIU">>,
     <<"hk-law", "KV_HK_LAW">>,
     <<"lessel", "KV_LESSEL">>,
     <<"letting-agents", "KV_LETTING_AGENTS">>,
     <<"barristers", "KV_BARRISTERS">>,
     <<"gld", "KV_GLD">>,
     <<"us-state-dept", "KV_US_STATE_DEPT">>,
     <<"estonia", "KV_ESTONIA">>,
     <<"hmcts", "KV_HMCTS">>,
     <<"ico", "KV_ICO">>,
     <<"phso", "KV_PHSO">>,
     <<"bar-standards", "KV_BAR_STANDARDS">>,
     <<"parliament", "KV_PARLIAMENT">> >>

\* Object.keys(NAMESPACE_MAP)
NamespaceNames == [i \in 1..Len(NAMESPACE_MAP) |-> NAMESPACE_MAP[i][1]]

\* FOLDER_BINDING_MAP, in insertion order: <<folder, binding, humanName>>
FOLDER_BINDING_MAP ==
  << <<"INBOX/MobiCycle Estonia/Liu", "KV_LIU", "Liu Litigation">>,
     <<"INBOX/MobiCycle Estonia/HK Law", "KV_HK_LAW", "HK Law Defendants">>,
     <<"INBOX/MobiCycle Estonia/Lessel", "KV_LESSEL", "Lessel Property">>,
     <<"INBOX/MobiCycle Estonia/Letting Agents", "KV_LETTING_AGENTS", "Rentify Letting Agents">>,
     <<"Labels/HK Law", "KV_HK_LAW", "HK Law Defendants">>,
     <<"Labels/Liu", "KV_LIU", "Liu Litigation">>,
     <<"Labels/Veena", "KV_BARRISTERS", "Pro Bono Barristers">>,
     <<"INBOX/Government/GLD", "KV_GLD", "Government Legal Department">>,
     <<"INBOX/Government/US State Dept", "KV_US_STATE_DEPT", "US State Department">>,
     <<"INBOX/Government/Estonia", "KV_ESTONIA", "Estonian Government">>,
     <<"INBOX/Courts/Court of Appeal", "KV_COURT_OF_APPEAL", "Court of Appeal">>,
     <<"INBOX/Courts/Chancery", "KV_CHANCERY", "Chancery Division">>,
     <<"INBOX/Courts/Admin Court", "KV_ADMIN_COURT", "Administrative Court">>,
     <<"INBOX/Courts/Kings Bench", "KV_KINGS_BENCH", "King's Bench Division">>,
     <<"INBOX/Courts/Supreme", "KV_SUPREME", "Supreme Court">>,
     <<"INBOX/Courts/Clerkenwell", "KV_CLERKENWELL", "Clerkenwell County Court">>,
     <<"INBOX/Courts/Central London", "KV_CENTRAL_LONDON", "Central London County Court">>,
     <<"INBOX/Complaints/HMCTS", "KV_HMCTS", "HMCTS Complaints">>,
     <<"INBOX/Complaints/ICO", "KV_ICO", "ICO Complaints">>,
     <<"INBOX/Complaints/PHSO", "KV_PHSO", "PHSO Complaints">>,
     <<"INBOX/Complaints/Bar Standards", "KV_BAR_STANDARDS", "Bar Standards Board">>,
     <<"INBOX/Complaints/Parliament", "KV_PARLIAMENT", "Parliamentary Complaints">> >>

\* own property names of FOLDER_BINDING_MAP
FolderNames == {FOLDER_BINDING_MAP[i][1] : i \in 1..Len(FOLDER_BINDING_MAP)}

(***************************************************************************)
(* Property access on the three objects, with JS semantics: obj[k] and     *)
(* `k in obj` see own properties first and then Object.prototype.          *)
(***************************************************************************)
\* nameOrBinding in env
InEnv(e, k) == k \in e \/ k \in ObjectPrototypeKeys

\* (env as any)[k]
EnvGet(e, k) ==
  IF k \in e THEN JSKV(k)
  ELSE IF k \in ObjectPrototypeKeys THEN JSInherited(k)
  ELSE JSUndefined

\* the key is ignored: every registered name yields the first entry's binding
NamespaceLookup_FirstEntry(name) ==
  IF \E i \in 1..Len(NAMESPACE_MAP) : NAMESPACE_MAP[i][1] = name
  THEN JSString(NAMESPACE_MAP[1][2])
  ELSE IF name \in ObjectPrototypeKeys THEN JSInherited(name)
  ELSE JSUndefined

\* NAMESPACE_MAP[name]
NamespaceLookup(name) ==
  IF \E i \in 1..Len(NAMESPACE_MAP) : NAMESPACE_MAP[i][1] = name
  THEN JSString(NAMESPACE_MAP[CHOOSE i \in 1..Len(NAMESPACE_MAP) :
                                NAMESPACE_MAP[i][1] = name][2])
  ELSE IF name \in ObjectPrototypeKeys THEN JSInherited(name)
  ELSE JSUndefined

\* the key is ignored: every folder yields the first entry
FolderLookup_FirstEntry(folder) ==
  JSMapping(FOLDER_BINDING_MAP[1][2], FOLDER_BINDING_MAP[1][3])

\* FOLDER_BINDING_MAP[folder]
FolderLookup(folder) ==
  IF \E i \in 1..Len(FOLDER_BINDING_MAP) : FOLDER_BINDING_MAP[i][1] = folder
  THEN LET i == CHOOSE j \in 1..Len(FOLDER_BINDING_MAP) :
                  FOLDER_BINDING_MAP[j][1] = folder
       IN JSMapping(FOLDER_BINDING_MAP[i][2], FOLDER_BINDING_MAP[i][3])
  ELSE IF folder \in ObjectPrototypeKeys THEN JSInherited(folder)
  ELSE JSUndefined

\* mapping.binding, as a property key: an inherited member has no `binding`,
\* and env[undefined] reads the property named "undefined"
MappingBinding(mapping) ==
  IF mapping.t = "mapping" THEN mapping.v ELSE "undefined"

(***************************************************************************)
(* resolveKV                                                               *)
(***************************************************************************)
Returned(x) == [threw |-> FALSE, value |-> x, error |-> "", available |-> <<>>]
Threw(kind, names) ==
  [threw |-> TRUE, value |-> JSUndefined, error |-> kind, available |-> names]

\* the two steps swapped: the name table is consulted before env
resolveKV_TableFirst(e, nameOrBinding) ==
  LET bindingKey == NamespaceLookup(nameOrBinding) IN
  IF Truthy(bindingKey) /\ bindingKey.t = "string" /\ InEnv(e, bindingKey.v)
  THEN Returned(EnvGet(e, bindingKey.v))
  ELSE IF InEnv(e, nameOrBinding)
  THEN Returned(EnvGet(e, nameOrBinding))
  ELSE Threw("UnknownNamespace", NamespaceNames)

resolveKV(e, nameOrBinding) ==
  IF InEnv(e, nameOrBinding)
  THEN Returned(EnvGet(e, nameOrBinding))
  ELSE LET bindingKey == NamespaceLookup(nameOrBinding) IN
       IF Truthy(bindingKey) /\ bindingKey.t = "string" /\ InEnv(e, bindingKey.v)
       THEN Returned(EnvGet(e, bindingKey.v))
       ELSE Threw("UnknownNamespace", NamespaceNames)

(***************************************************************************)
(* Keys and values.  A key is a string, modelled as a sequence of          *)
(* character codes; code 1 stands for the lead "email:".                   *)
(***************************************************************************)
Keys == {<<1, 1>>, <<1, 2>>, <<2>>}
EmailPrefix == <<1>>
Values == {"", "v"}

\* String.startsWith
IsPrefix(p, k) == Len(p) <= Len(k) /\ SubSeq(k, 1, Len(p)) = p

RECURSIVE LexLess(_, _)
LexLess(a, b) ==
  IF a = <<>> THEN b # <<>>
  ELSE IF b = <<>> THEN FALSE
  ELSE IF Head(a) # Head(b) THEN Head(a) < Head(b)
  ELSE LexLess(Tail(a), Tail(b))

RECURSIVE SortKeys(_)
SortKeys(S) ==
  IF S = {} THEN <<>>
  ELSE LET m == CHOOSE x \in S : \A y \in S \ {x} : LexLess(x, y)
       IN <<m>> \o SortKeys(S \ {m})

Min(a, b) == IF a <= b THEN a ELSE b

Range(f) == {f[x] : x \in DOMAIN f}

EmptyMap == [x \in {} |-> 0]

(***************************************************************************)
(* The key-value store behind a binding (external collaborator).           *)
(* A namespace is a finite map key -> [value, metadata].                   *)
(***************************************************************************)
JSNull == [t |-> "null", v |-> ""]
NoMetadata == [t |-> "none"]

\* KVNamespace.get: the value, or null for an absent key
KVGet(s, b, k) ==
  IF k \in DOMAIN s[b] THEN JSString(s[b][k].value) ELSE JSNull

\* KVNamespace.put
KVPut(s, b, k, v, m) ==
  [s EXCEPT ![b] = (k :> [value |-> v, metadata |-> m]) @@ @]

\* KVNamespace.delete (deleting an absent key succeeds)
KVDelete(s, b, k) ==
  [s EXCEPT ![b] = [x \in (DOMAIN @) \ {k} |-> @[x]]]

\* A cursor is a string: <<>> is no cursor, <<n>> resumes after n keys.
\* KVNamespace.list: one page, in key order.  se.pageSize is the store's own
\* page maximum; a store with se.stuck never reports completion.
KVList(s, b, prefix, cur, limit, se) ==
  LET matching == SortKeys({k \in DOMAIN s[b] : IsPrefix(prefix, k)})
      start == IF cur = <<>> THEN 0 ELSE cur[1]
      stop == Min(start + Min(limit, se.pageSize), Len(matching))
      complete == stop >= Len(matching) /\ ~se.stuck
  IN [keys |-> SubSeq(matching, start + 1, stop),
      list_complete |-> complete,
      cursor |-> IF complete THEN <<>> ELSE <<stop>>]

\* Bindings whose store calls may throw.
Flaky == {"KV_LIU", "KV_CHANCERY", BodiesBinding}

\* the outcomes of one store call: TRUE it completes, FALSE it throws
Outcomes(b) == IF b \in Flaky THEN BOOLEAN ELSE {TRUE}

DefaultStore == [pageSize |-> StorePageMax, stuck |-> FALSE]

(***************************************************************************)
(* Tool results: a payload plus the error flag.  threw marks an exception  *)
(* that left the handler, which the dispatcher reports as an error result. *)
(***************************************************************************)
NoPayload == [t |-> "none"]
ToolOk(p) == [isError |-> FALSE, threw |-> FALSE, error |-> "", payload |-> p]
ToolError(kind, p) == [isError |-> TRUE, threw |-> FALSE, error |-> kind, payload |-> p]
ToolThrew(kind, p) == [isError |-> TRUE, threw |-> TRUE, error |-> kind, payload |-> p]

\* the exception resolveKV throws, as a tool result
ResolveFailure(r) ==
  ToolThrew(r.error, [t |-> "available", names |-> r.available])

Called(op, b) == [op |-> op, binding |-> b]

\* a kv.list call with its arguments
ListCall(b, prefix, cur, limit) ==
  [binding |-> b, prefix |-> prefix, cursor |-> cur, limit |-> limit]

NoCall ==
  [tool |-> "", namespace |-> "", key |-> <<>>, value |-> "",
   metadata |-> JSUndefined, keys |-> <<>>, prefix |-> <<>>, folder |-> "",
   body_key |-> <<>>, body |-> "", limit |-> 0, cursor |-> <<>>]

(***************************************************************************)
(* State.                                                                  *)
(***************************************************************************)
VARIABLES
  env,        \* the identifiers bound in the Worker's env
  store,      \* binding -> namespace contents
  pc,         \* "ready", "done", or the await the running handler is suspended at
  call,       \* the tool and arguments of the current (or last) invocation
  result,     \* the result of the last finished invocation
  kv,         \* handler local: the resolved KVNamespace
  all,        \* listAllKeys: accumulated keys
  cursor,     \* listAllKeys: cursor
  pages,      \* number of list calls listAllKeys has made (saturating)
  senv,       \* behaviour of the store during this invocation
  pending,    \* kv_keys_bulk_get: outstanding reads, key -> count
  results,    \* kv_keys_bulk_get: results
  stats,      \* pipeline_status: stats
  idx,        \* pipeline_status: position in Object.entries(NAMESPACE_MAP)
  issued,     \* store calls this invocation has issued
  failed,     \* those of them that threw
  lastList,   \* listAllKeys: arguments of its last list call, and the last page
  probes      \* pipeline_status: the list calls it has issued, with arguments

vars ==
  <<env, store, pc, call, result, kv, all, cursor, pages, senv, pending,
    results, stats, idx, issued, failed, lastList, probes>>

locals ==
  <<kv, all, cursor, pages, senv, pending, results, stats, idx, lastList, probes>>

\* no list call made yet
NoList == [sent |-> <<>>, prefix |-> <<>>, returned |-> <<>>, complete |-> FALSE]

Init ==
  /\ env \in {DeclaredEnv, DeclaredEnv \cup {BodiesBinding}}
  /\ store = [b \in AllBindings |-> EmptyMap]
  /\ pc = "ready"
  /\ call = NoCall
  /\ result = ToolOk(NoPayload)
  /\ kv = JSUndefined
  /\ all = <<>>
  /\ cursor = <<>>
  /\ pages = 0
  /\ senv = DefaultStore
  /\ pending = EmptyMap
  /\ results = EmptyMap
  /\ stats = EmptyMap
  /\ idx = 0
  /\ issued = {}
  /\ failed = {}
  /\ lastList = NoList
  /\ probes = <<>>

\* a handler starts: its locals are fresh
Fresh ==
  /\ all' = <<>>
  /\ cursor' = <<>>
  /\ pages' = 0
  /\ pending' = EmptyMap
  /\ results' = EmptyMap
  /\ stats' = EmptyMap
  /\ idx' = 0
  /\ lastList' = NoList
  /\ probes' = <<>>

\* the invocation ends with result r
Finish(r) == pc' = "done" /\ result' = r

(***************************************************************************)
(* Tool arguments.                                                         *)
(***************************************************************************)
NamespaceArgs == {"liu", "KV_LIU", "email-bodies", "no-such-namespace", "toString"}
ReadNamespaceArgs == NamespaceArgs \cup {BodiesBinding}
UserMetadata == [t |-> "user"]
PutArgs ==
  [namespace : NamespaceArgs, key : Keys, value : Values, metadata : {JSUndefined}]
  \cup {[namespace |-> "liu", key |-> <<2>>, value |-> "v",
         metadata |-> [t |-> "object", v |-> "user"]]}

(***************************************************************************)
(* kv_key_get                                                              *)
(***************************************************************************)
\* if (!value): the empty string is taken for an absent key
GetResult_EmptyIsAbsent(key, value) ==
  IF value.t = "null" \/ value.v = ""
  THEN ToolError("NotFound", [t |-> "text", v |-> "", key |-> key])
  ELSE ToolOk([t |-> "text", v |-> value.v])

GetResult(key, value) ==
  IF value.t = "null"
  THEN ToolError("NotFound", [t |-> "text", v |-> "", key |-> key])
  ELSE ToolOk([t |-> "text", v |-> value.v])

kv_key_get(namespace, key) ==
  /\ pc = "ready"
  /\ call' = [NoCall EXCEPT !.tool = "kv_key_get", !.namespace = namespace, !.key = key]
  /\ Fresh /\ senv' = DefaultStore
  /\ UNCHANGED <<env, store>>
  /\ LET r == resolveKV(env, namespace) IN
     IF r.threw
     THEN kv' = JSUndefined /\ issued' = {} /\ failed' = {} /\ Finish(ResolveFailure(r))
     ELSE /\ kv' = r.value
          /\ IF r.value.t # "kv"
             THEN issued' = {} /\ failed' = {} /\ Finish(ToolThrew("TypeError", NoPayload))
             ELSE \E ok \in Outcomes(r.value.v) :
                    /\ issued' = {Called("get", r.value.v)}
                    /\ failed' = IF ok THEN {} ELSE issued'
                    /\ IF ok
                       THEN Finish(GetResult(key, KVGet(store, r.value.v, key)))
                       ELSE Finish(ToolThrew("StoreUnavailable", NoPayload))

(***************************************************************************)
(* kv_key_put                                                              *)
(***************************************************************************)
\* metadata ? { metadata } : undefined
PutOptions(metadata) == IF Truthy(metadata) THEN UserMetadata ELSE NoMetadata

\* the value argument is lost: an empty string is stored
PutEffect_LosesValue(s, b, key, value, metadata) ==
  KVPut(s, b, key, "", PutOptions(metadata))

\* await kv.put(key, value, options)
PutEffect(s, b, key, value, metadata) ==
  KVPut(s, b, key, value, PutOptions(metadata))

kv_key_put(a) ==
  /\ pc = "ready"
  /\ call' = [NoCall EXCEPT !.tool = "kv_key_put", !.namespace = a.namespace,
                            !.key = a.key, !.value = a.value, !.metadata = a.metadata]
  /\ Fresh /\ senv' = DefaultStore
  /\ UNCHANGED env
  /\ LET r == resolveKV(env, a.namespace) IN
     IF r.threw
     THEN /\ kv' = JSUndefined /\ issued' = {} /\ failed' = {} /\ Finish(ResolveFailure(r))
          /\ UNCHANGED store
     ELSE /\ kv' = r.value
          /\ IF r.value.t # "kv"
             THEN /\ issued' = {} /\ failed' = {} /\ Finish(ToolThrew("TypeError", NoPayload))
                  /\ UNCHANGED store
             ELSE \E ok \in Outcomes(r.value.v) :
                    /\ issued' = {Called("put", r.value.v)}
                    /\ failed' = IF ok THEN {} ELSE issued'
                    /\ IF ok
                       THEN /\ store' = PutEffect(store, r.value.v, a.key, a.value, a.metadata)
                            /\ Finish(ToolOk([t |-> "put", success |-> TRUE, key |-> a.key]))
                       ELSE /\ UNCHANGED store
                            /\ Finish(ToolThrew("StoreUnavailable", NoPayload))

(***************************************************************************)
(* kv_key_delete                                                           *)
(***************************************************************************)
\* the whole namespace is emptied
DeleteEffect_ClearsNamespace(s, b, key) == [s EXCEPT ![b] = EmptyMap]

\* await kv.delete(key)
DeleteEffect(s, b, key) == KVDelete(s, b, key)

kv_key_delete(namespace, key) ==
  /\ pc = "ready"
  /\ call' = [NoCall EXCEPT !.tool = "kv_key_delete", !.namespace = namespace, !.key = key]
  /\ Fresh /\ senv' = DefaultStore
  /\ UNCHANGED env
  /\ LET r == resolveKV(env, namespace) IN
     IF r.threw
     THEN /\ kv' = JSUndefined /\ issued' = {} /\ failed' = {} /\ Finish(ResolveFailure(r))
          /\ UNCHANGED store
     ELSE /\ kv' = r.value
          /\ IF r.value.t # "kv"
             THEN /\ issued' = {} /\ failed' = {} /\ Finish(ToolThrew("TypeError", NoPayload))
                  /\ UNCHANGED store
             ELSE \E ok \in Outcomes(r.value.v) :
                    /\ issued' = {Called("delete", r.value.v)}
                    /\ failed' = IF ok THEN {} ELSE issued'
                    /\ IF ok
                       THEN /\ store' = DeleteEffect(store, r.value.v, key)
                            /\ Finish(ToolOk([t |-> "delete", success |-> TRUE,
                                              key |-> key, deleted |-> TRUE]))
                       ELSE /\ UNCHANGED store
                            /\ Finish(ToolThrew("StoreUnavailable", NoPayload))

(***************************************************************************)
(* listAllKeys: the do-while loop; each list call is issued and awaited.   *)
(***************************************************************************)
\* behaviours of the store during one listing invocation
StoreModes == [pageSize : 1..StorePageMax, stuck : BOOLEAN]
PrefixArgs == {<<>>, EmailPrefix}

\* all.push(...result.keys.map((k) => k.name))
Accumulate(acc, r) == acc \o r.keys

\* the test inverted: the cursor is dropped while pages remain
NextCursor_Inverted(r) == IF r.list_complete THEN r.cursor ELSE <<>>

\* cursor = result.list_complete ? undefined : result.cursor
NextCursor(r) == IF r.list_complete THEN <<>> ELSE r.cursor

\* the loop body runs once
LoopAgain_Never(c) == FALSE

\* while (cursor)
LoopAgain(c) == c # <<>>

\* the page counter, saturating
CountPage(n) == Min(n + 1, MaxPages)

\* const result = await kv.list({ prefix, cursor, limit: 1000 }): the call
listAllKeys_call ==
  /\ pc = "listAll"
  /\ UNCHANGED <<env, store, call, kv, all, cursor, senv, pending, results, stats,
                 idx, probes>>
  /\ IF kv.t # "kv"
     THEN /\ Finish(ToolThrew("TypeError", NoPayload))
          /\ UNCHANGED <<pages, issued, failed, lastList>>
     ELSE /\ issued' = issued \cup {Called("list", kv.v)}
          /\ lastList' = [lastList EXCEPT !.sent = cursor, !.prefix = call.prefix]
          /\ pages' = CountPage(pages)
          /\ pc' = "listing"
          /\ UNCHANGED <<result, failed>>

\* the awaited page arrives (or the call throws), up to the loop test
listAllKeys_page ==
  /\ pc = "listing"
  /\ UNCHANGED <<env, store, call, kv, pages, senv, pending, results, stats, idx,
                 issued, probes>>
  /\ \E ok \in Outcomes(kv.v) :
       IF ok
       THEN LET r == KVList(store, kv.v, call.prefix, cursor, ListAllLimit, senv) IN
            /\ all' = Accumulate(all, r)
            /\ cursor' = NextCursor(r)
            /\ lastList' = [lastList EXCEPT !.returned = r.cursor,
                                            !.complete = r.list_complete]
            /\ pc' = IF LoopAgain(cursor') THEN "listAll" ELSE "listed"
            /\ UNCHANGED <<result, failed>>
       ELSE /\ failed' = failed \cup {Called("list", kv.v)}
            /\ Finish(ToolThrew("StoreUnavailable", NoPayload))
            /\ UNCHANGED <<all, cursor, lastList>>

(***************************************************************************)
(* kv_keys_list                                                            *)
(***************************************************************************)
ListNamespaceArgs == {"liu", "no-such-namespace", "toString"}
\* limit: z.number().optional().default(100)
DefaultLimit == 100
LimitArgs == {1, DefaultLimit}
\* cursors a caller passes: none, or one a previous page carried
CursorArgs == {<<>>} \cup {<<n>> : n \in 1..StorePageMax}

\* the cursor is handed on whether or not the page is complete
PageCursor_Always(r) == JSString(r.cursor)

\* cursor: result.list_complete ? null : result.cursor
PageCursor(r) == IF r.list_complete THEN JSNull ELSE JSString(r.cursor)

\* { keys, count, list_complete, cursor }
ListPayload(r) ==
  [t |-> "page", keys |-> r.keys, count |-> Len(r.keys),
   list_complete |-> r.list_complete, cursor |-> PageCursor(r)]

kv_keys_list(namespace, prefix, limit, cur, se) ==
  /\ pc = "ready"
  /\ call' = [NoCall EXCEPT !.tool = "kv_keys_list", !.namespace = namespace,
                            !.prefix = prefix, !.limit = limit, !.cursor = cur]
  /\ Fresh /\ senv' = se
  /\ UNCHANGED <<env, store>>
  /\ LET r == resolveKV(env, namespace) IN
     IF r.threw
     THEN kv' = JSUndefined /\ issued' = {} /\ failed' = {} /\ Finish(ResolveFailure(r))
     ELSE /\ kv' = r.value
          /\ IF r.value.t # "kv"
             THEN issued' = {} /\ failed' = {} /\ Finish(ToolThrew("TypeError", NoPayload))
             ELSE \E ok \in Outcomes(r.value.v) :
                    /\ issued' = {Called("list", r.value.v)}
                    /\ failed' = IF ok THEN {} ELSE issued'
                    /\ IF ok
                       THEN Finish(ToolOk(ListPayload(
                              KVList(store, r.value.v, prefix, cur, limit, se))))
                       ELSE Finish(ToolThrew("StoreUnavailable", NoPayload))

(***************************************************************************)
(* kv_keys_count                                                           *)
(***************************************************************************)
kv_keys_count(namespace, prefix, se) ==
  /\ pc = "ready"
  /\ call' = [NoCall EXCEPT !.tool = "kv_keys_count", !.namespace = namespace,
                            !.prefix = prefix]
  /\ Fresh /\ senv' = se
  /\ issued' = {} /\ failed' = {}
  /\ UNCHANGED <<env, store>>
  /\ LET r == resolveKV(env, namespace) IN
     IF r.threw
     THEN kv' = JSUndefined /\ Finish(ResolveFailure(r))
     ELSE kv' = r.value /\ pc' = "listAll" /\ UNCHANGED result

kv_keys_count_return ==
  /\ pc = "listed"
  /\ call.tool = "kv_keys_count"
  /\ Finish(ToolOk([t |-> "count", count |-> Len(all), prefix |-> call.prefix]))
  /\ UNCHANGED <<env, store, call, locals, issued, failed>>

(***************************************************************************)
(* email_folder_stats                                                      *)
(***************************************************************************)
StatsFolderArgs == {"Labels/Liu", "INBOX/Courts/Chancery", "Not/Mapped", "constructor"}

\* if (!mapping)
NotMapped(mapping) == ~Truthy(mapping)

email_folder_stats(folder, se) ==
  /\ pc = "ready"
  /\ call' = [NoCall EXCEPT !.tool = "email_folder_stats", !.folder = folder,
                            !.prefix = EmailPrefix]
  /\ Fresh /\ senv' = se
  /\ issued' = {} /\ failed' = {}
  /\ UNCHANGED <<env, store>>
  /\ LET mapping == FolderLookup(folder) IN
     IF NotMapped(mapping)
     THEN kv' = JSUndefined /\ Finish(ToolError("NotMapped", NoPayload))
     ELSE /\ kv' = EnvGet(env, MappingBinding(mapping))
          /\ pc' = "listAll"
          /\ UNCHANGED result

email_folder_stats_return ==
  /\ pc = "listed"
  /\ call.tool = "email_folder_stats"
  /\ LET mapping == FolderLookup(call.folder) IN
     Finish(ToolOk([t |-> "stats", folder |-> call.folder,
                    humanName |-> mapping.humanName, binding |-> mapping.v,
                    emailCount |-> Len(all)]))
  /\ UNCHANGED <<env, store, call, locals, issued, failed>>

(***************************************************************************)
(* kv_keys_bulk_get                                                        *)
(***************************************************************************)
Repeat(n, k) == [i \in 1..n |-> k]

KeyArrays ==
  {<<>>, << <<1, 1>> >>, << <<1, 1>>, <<2>> >>, << <<2>>, <<1, 2>> >>,
   << <<2>>, <<2>> >>, Repeat(BulkMax, <<1, 2>>), Repeat(BulkMax + 1, <<1, 2>>)}

\* the array length is not limited
SchemaAccepts_NoMax(keys) == TRUE

\* keys: z.array(z.string()).max(100)
SchemaAccepts(keys) == Len(keys) <= BulkMax

\* the reads keys.map starts: key -> number of outstanding kv.get(key)
Outstanding(keys) ==
  [k \in Range(keys) |-> Cardinality({i \in 1..Len(keys) : keys[i] = k})]

kv_keys_bulk_get(namespace, keys) ==
  /\ pc = "ready"
  /\ call' = [NoCall EXCEPT !.tool = "kv_keys_bulk_get", !.namespace = namespace,
                            !.keys = keys]
  /\ all' = <<>> /\ cursor' = <<>> /\ pages' = 0 /\ results' = EmptyMap
  /\ stats' = EmptyMap /\ idx' = 0 /\ senv' = DefaultStore
  /\ lastList' = NoList /\ probes' = <<>>
  /\ failed' = {}
  /\ UNCHANGED <<env, store>>
  /\ IF ~SchemaAccepts(keys)
     THEN /\ kv' = JSUndefined /\ pending' = EmptyMap /\ issued' = {}
          /\ Finish(ToolError("TooManyKeys", NoPayload))
     ELSE LET r == resolveKV(env, namespace) IN
          IF r.threw
          THEN /\ kv' = JSUndefined /\ pending' = EmptyMap /\ issued' = {}
               /\ Finish(ResolveFailure(r))
          ELSE /\ kv' = r.value
               /\ IF r.value.t # "kv" /\ keys # <<>>
                  THEN /\ pending' = EmptyMap /\ issued' = {}
                       /\ Finish(ToolThrew("TypeError", NoPayload))
                  ELSE /\ pending' = Outstanding(keys)
                       /\ issued' = IF keys = <<>> THEN {} ELSE {Called("get", r.value.v)}
                       /\ pc' = "bulk"
                       /\ UNCHANGED result

\* results[key] = await kv.get(key)
RecordRead(res, key, value) == (key :> value) @@ res

\* one kv.get settles; a rejected read rejects Promise.all
bulk_read_settles(key) ==
  /\ pc = "bulk"
  /\ key \in DOMAIN pending
  /\ pending[key] > 0
  /\ UNCHANGED <<env, store, call, kv, all, cursor, pages, senv, stats, idx, issued,
                 lastList, probes>>
  /\ \E ok \in Outcomes(kv.v) :
       IF ok
       THEN /\ results' = RecordRead(results, key, KVGet(store, kv.v, key))
            /\ pending' = [pending EXCEPT ![key] = @ - 1]
            /\ UNCHANGED <<pc, result, failed>>
       ELSE /\ failed' = failed \cup {Called("get", kv.v)}
            /\ Finish(ToolThrew("StoreUnavailable", NoPayload))
            /\ UNCHANGED <<results, pending>>

\* the handler returns without waiting for the reads
kv_keys_bulk_get_return_Early ==
  /\ pc = "bulk"
  /\ Finish(ToolOk([t |-> "results", results |-> results]))
  /\ UNCHANGED <<env, store, call, locals, issued, failed>>

\* Promise.all resolved: every read has settled
kv_keys_bulk_get_return ==
  /\ pc = "bulk"
  /\ \A k \in DOMAIN pending : pending[k] = 0
  /\ Finish(ToolOk([t |-> "results", results |-> results]))
  /\ UNCHANGED <<env, store, call, locals, issued, failed>>

(***************************************************************************)
(* email_store                                                             *)
(***************************************************************************)
StoreFolderArgs == {"Labels/Liu", "Not/Mapped", "constructor"}
MetadataKeyArgs == {<<1, 1>>}
BodyKeyArgs == {<<2>>}

\* new Date().toISOString(): the clock is not modelled
StoredAt == "stored_at"

\* the body reference is left out of the side metadata
MetadataOptions_NoBodyRef(folder, body_key) ==
  [t |-> "meta", folder |-> folder, body_uuid |-> <<>>, stored_at |-> StoredAt]

\* { metadata: { folder, body_uuid: body_key, stored_at } }
MetadataOptions(folder, body_key) ==
  [t |-> "meta", folder |-> folder, body_uuid |-> body_key, stored_at |-> StoredAt]

\* { metadata: { folder, humanName: mapping.humanName, stored_at } }
BodyOptions(folder, mapping) ==
  [t |-> "body", folder |-> folder, humanName |-> mapping.humanName,
   stored_at |-> StoredAt]

email_store(folder, key, metadata, body_key, body) ==
  /\ pc = "ready"
  /\ call' = [NoCall EXCEPT !.tool = "email_store", !.folder = folder, !.key = key,
                            !.value = metadata, !.body_key = body_key, !.body = body]
  /\ Fresh /\ senv' = DefaultStore
  /\ issued' = {} /\ failed' = {}
  /\ UNCHANGED <<env, store>>
  /\ LET mapping == FolderLookup(folder) IN
     IF NotMapped(mapping)
     THEN kv' = JSUndefined /\ Finish(ToolError("NotMapped", NoPayload))
     ELSE /\ kv' = EnvGet(env, MappingBinding(mapping))
          /\ pc' = "put_metadata"
          /\ UNCHANGED result

\* the metadata put is not awaited: the handler goes on whatever its outcome
email_store_put_metadata_Unawaited ==
  /\ pc = "put_metadata"
  /\ UNCHANGED <<env, call, locals, result>>
  /\ IF kv.t # "kv"
     THEN pc' = "put_body" /\ UNCHANGED <<store, issued, failed>>
     ELSE \E ok \in Outcomes(kv.v) :
            /\ issued' = issued \cup {Called("put", kv.v)}
            /\ pc' = "put_body"
            /\ IF ok
               THEN /\ store' = KVPut(store, kv.v, call.key, call.value,
                                      MetadataOptions(call.folder, call.body_key))
                    /\ UNCHANGED failed
               ELSE /\ failed' = failed \cup {Called("put", kv.v)}
                    /\ UNCHANGED store

\* await folderKV.put(key, metadata, ...)
email_store_put_metadata ==
  /\ pc = "put_metadata"
  /\ UNCHANGED <<env, call, locals>>
  /\ IF kv.t # "kv"
     THEN /\ Finish(ToolThrew("TypeError", NoPayload))
          /\ UNCHANGED <<store, issued, failed>>
     ELSE \E ok \in Outcomes(kv.v) :
            /\ issued' = issued \cup {Called("put", kv.v)}
            /\ IF ok
               THEN /\ store' = KVPut(store, kv.v, call.key, call.value,
                                      MetadataOptions(call.folder, call.body_key))
                    /\ pc' = "put_body"
                    /\ UNCHANGED <<result, failed>>
               ELSE /\ failed' = failed \cup {Called("put", kv.v)}
                    /\ Finish(ToolThrew("StoreUnavailable", NoPayload))
                    /\ UNCHANGED store

\* a failed body put is swallowed: the handler reports success all the same
email_store_put_body_Swallow ==
  /\ pc = "put_body"
  /\ UNCHANGED <<env, call, locals>>
  /\ Finish(ToolOk([t |-> "stored", success |-> TRUE, metadata_key |-> call.key,
                    body_key |-> call.body_key]))
  /\ LET bodies == EnvGet(env, BodiesBinding) IN
     IF bodies.t # "kv"
     THEN UNCHANGED <<store, issued, failed>>
     ELSE \E ok \in Outcomes(bodies.v) :
            /\ issued' = issued \cup {Called("put", bodies.v)}
            /\ IF ok
               THEN /\ store' = KVPut(store, bodies.v, call.body_key, call.body,
                                      BodyOptions(call.folder, FolderLookup(call.folder)))
                    /\ UNCHANGED failed
               ELSE /\ failed' = failed \cup {Called("put", bodies.v)}
                    /\ UNCHANGED store

\* await env.EMAIL_BODIES.put(body_key, body, ...)
email_store_put_body ==
  /\ pc = "put_body"
  /\ UNCHANGED <<env, call, locals>>
  /\ LET bodies == EnvGet(env, BodiesBinding) IN
     IF bodies.t # "kv"
     THEN /\ Finish(ToolThrew("TypeError", NoPayload))
          /\ UNCHANGED <<store, issued, failed>>
     ELSE \E ok \in Outcomes(bodies.v) :
            /\ issued' = issued \cup {Called("put", bodies.v)}
            /\ IF ok
               THEN /\ store' = KVPut(store, bodies.v, call.body_key, call.body,
                                      BodyOptions(call.folder, FolderLookup(call.folder)))
                    /\ Finish(ToolOk([t |-> "stored", success |-> TRUE,
                                      metadata_key |-> call.key,
                                      body_key |-> call.body_key]))
                    /\ UNCHANGED failed
               ELSE /\ failed' = failed \cup {Called("put", bodies.v)}
                    /\ Finish(ToolThrew("StoreUnavailable", NoPayload))
                    /\ UNCHANGED store

(***************************************************************************)
(* namespaces_list and email_list_folders: no arguments, no store call.    *)
(***************************************************************************)
\* const categories, in insertion order: <<category, names>>
Categories ==
  << <<"system", <<"bridge-accounts", "email-bodies">> >>,
     <<"courts", <<"court-of-appeal", "chancery", "admin-court", "kings-bench",
                   "supreme", "clerkenwell", "central-london">> >>,
     <<"claimants", <<"liu", "hk-law", "lessel", "letting-agents", "barristers">> >>,
     <<"government", <<"gld", "us-state-dept", "estonia">> >>,
     <<"complaints", <<"hmcts", "ico", "phso", "bar-standards", "parliament">> >> >>

\* { total: Object.keys(NAMESPACE_MAP).length, categories }
NamespacesPayload ==
  [t |-> "namespaces", total |-> Len(NamespaceNames), categories |-> Categories]

namespaces_list ==
  /\ pc = "ready"
  /\ call' = [NoCall EXCEPT !.tool = "namespaces_list"]
  /\ Fresh /\ senv' = DefaultStore
  /\ kv' = JSUndefined /\ issued' = {} /\ failed' = {}
  /\ Finish(ToolOk(NamespacesPayload))
  /\ UNCHANGED <<env, store>>

\* Object.entries(FOLDER_BINDING_MAP).map(...): { folder, binding, humanName }
FolderEntries ==
  [i \in 1..Len(FOLDER_BINDING_MAP) |->
     [folder |-> FOLDER_BINDING_MAP[i][1], binding |-> FOLDER_BINDING_MAP[i][2],
      humanName |-> FOLDER_BINDING_MAP[i][3]]]

\* { total: folders.length, folders }
FoldersPayload ==
  [t |-> "folders", total |-> Len(FolderEntries), folders |-> FolderEntries]

email_list_folders ==
  /\ pc = "ready"
  /\ call' = [NoCall EXCEPT !.tool = "email_list_folders"]
  /\ Fresh /\ senv' = DefaultStore
  /\ kv' = JSUndefined /\ issued' = {} /\ failed' = {}
  /\ Finish(ToolOk(FoldersPayload))
  /\ UNCHANGED <<env, store>>

(***************************************************************************)
(* pipeline_status: one iteration of the for loop per step.                *)
(***************************************************************************)
\* no namespace is skipped
Excluded_None(name) == FALSE

\* if (name === "email-bodies" || name === "bridge-accounts") continue
Excluded(name) == name = "email-bodies" \/ name = "bridge-accounts"

ProbeFailed == -1

\* list_complete is not consulted
ProbeCount_NoSentinel(r) == Len(r.keys)

\* stats[name] = result.keys.length; if (!result.list_complete) stats[name] = -1
ProbeCount(r) == IF ~r.list_complete THEN MoreThanOne ELSE Len(r.keys)

\* the catch block swallows the failure and records nothing
OnCatch_Swallow(st, name) == st

\* catch { stats[name] = -1 }
OnCatch(st, name) == (name :> ProbeFailed) @@ st

pipeline_status ==
  /\ pc = "ready"
  /\ call' = [NoCall EXCEPT !.tool = "pipeline_status"]
  /\ all' = <<>> /\ cursor' = <<>> /\ pages' = 0 /\ pending' = EmptyMap
  /\ results' = EmptyMap /\ stats' = EmptyMap /\ idx' = 1
  /\ kv' = JSUndefined /\ senv' = DefaultStore
  /\ lastList' = NoList /\ probes' = <<>>
  /\ issued' = {} /\ failed' = {}
  /\ pc' = "scan"
  /\ UNCHANGED <<env, store, result>>

pipeline_status_probe ==
  /\ pc = "scan"
  /\ idx <= Len(NAMESPACE_MAP)
  /\ idx' = idx + 1
  /\ UNCHANGED <<env, store, pc, call, result, kv, all, cursor, pages, senv,
                 pending, results, lastList>>
  /\ LET name == NAMESPACE_MAP[idx][1]
         bindingKey == NAMESPACE_MAP[idx][2]
         target == EnvGet(env, bindingKey)
     IN IF Excluded(name)
        THEN UNCHANGED <<stats, issued, failed, probes>>
        ELSE IF target.t # "kv"
        THEN /\ stats' = OnCatch(stats, name)
             /\ UNCHANGED <<issued, failed, probes>>
        ELSE \E ok \in Outcomes(target.v) :
               /\ issued' = issued \cup {Called("list", target.v)}
               /\ probes' = Append(probes, ListCall(target.v, <<>>, <<>>, ProbeLimit))
               /\ IF ok
                  THEN /\ stats' = (name :> ProbeCount(KVList(store, target.v, <<>>, <<>>,
                                                             ProbeLimit, senv))) @@ stats
                       /\ UNCHANGED failed
                  ELSE /\ stats' = OnCatch(stats, name)
                       /\ failed' = failed \cup {Called("list", target.v)}

pipeline_status_return ==
  /\ pc = "scan"
  /\ idx > Len(NAMESPACE_MAP)
  /\ Finish(ToolOk([t |-> "status", status |-> "ok", namespace_counts |-> stats]))
  /\ UNCHANGED <<env, store, call, locals, issued, failed>>

(***************************************************************************)
(* The dispatcher hands the result to the caller; the handler's frame is   *)
(* gone and the next invocation may start.                                 *)
(***************************************************************************)
Respond ==
  /\ pc = "done"
  /\ pc' = "ready"
  /\ call' = NoCall
  /\ result' = ToolOk(NoPayload)
  /\ kv' = JSUndefined
  /\ Fresh /\ senv' = DefaultStore
  /\ issued' = {}
  /\ failed' = {}
  /\ UNCHANGED <<env, store>>

Next ==
  \/ \E n \in ReadNamespaceArgs, k \in Keys : kv_key_get(n, k)
  \/ \E a \in PutArgs : kv_key_put(a)
  \/ \E n \in NamespaceArgs, k \in Keys : kv_key_delete(n, k)
  \/ \E n \in ListNamespaceArgs, p \in PrefixArgs, l \in LimitArgs, c \in CursorArgs,
        se \in StoreModes : kv_keys_list(n, p, l, c, se)
  \/ \E n \in NamespaceArgs, p \in PrefixArgs, se \in StoreModes : kv_keys_count(n, p, se)
  \/ kv_keys_count_return
  \/ \E f \in StatsFolderArgs, se \in StoreModes : email_folder_stats(f, se)
  \/ email_folder_stats_return
  \/ listAllKeys_call
  \/ listAllKeys_page
  \/ \E n \in NamespaceArgs, ks \in KeyArrays : kv_keys_bulk_get(n, ks)
  \/ namespaces_list
  \/ email_list_folders
  \/ \E k \in Keys : bulk_read_settles(k)
  \/ kv_keys_bulk_get_return
  \/ \E f \in StoreFolderArgs, k \in MetadataKeyArgs, bk \in BodyKeyArgs :
        email_store(f, k, "m", bk, "b")
  \/ email_store_put_metadata
  \/ email_store_put_body
  \/ pipeline_status
  \/ pipeline_status_probe
  \/ pipeline_status_return
  \/ Respond

Spec == Init /\ [][Next]_vars

\* The runtime keeps running the handler: a list call that can be issued is
\* issued, and the store answers every list call.
FairSpec == Spec /\ WF_vars(listAllKeys_call) /\ WF_vars(listAllKeys_page)

(***************************************************************************)
(* Vocabulary of the properties.                                           *)
(***************************************************************************)
RegisteredNames == Range(NamespaceNames)
BindingOf(name) == NamespaceLookup(name).v
NumKeys(b) == Cardinality(DOMAIN store[b])
CeilDiv(n, p) == (n + p - 1) \div p
IsSet(seq) == Cardinality(Range(seq)) = Len(seq)
Matching(b, prefix) == {k \in DOMAIN store[b] : IsPrefix(prefix, k)}
PageSize == Min(ListAllLimit, senv.pageSize)
InEmailStore == call.tool = "email_store" /\ pc # "ready"
InScan == call.tool = "pipeline_status" /\ pc # "ready"
InBulkGet == call.tool = "kv_keys_bulk_get" /\ pc # "ready"
\* the metadata put of the running email_store has completed
MetadataWritten ==
  /\ InEmailStore
  /\ kv.t = "kv"
  /\ Called("put", kv.v) \in issued \ failed
\* the body put of the running email_store has completed
BodyWritten == InEmailStore /\ Called("put", BodiesBinding) \in issued \ failed
\* the names the scan has gone past
Scanned == {NAMESPACE_MAP[i][1] : i \in 1..(idx - 1)}
\* listAllKeys is running
InListAll == pc \in {"listAll", "listing"}
\* the tools that call resolveKV
ResolvingTools ==
  {"kv_key_get", "kv_key_put", "kv_key_delete", "kv_keys_list", "kv_keys_count",
   "kv_keys_bulk_get"}
\* resolveKV has been called by the running handler
Resolved ==
  /\ pc # "ready"
  /\ call.tool \in ResolvingTools
  /\ call.tool = "kv_keys_bulk_get" => SchemaAccepts(call.keys)
\* what kv_key_get(namespace, key) returns in this state when its read completes
GetNow(namespace, key) ==
  GetResult(key, KVGet(store, resolveKV(env, namespace).value.v, key))

\* the namespace FOLDER_BINDING_MAP gives a folder, read off the table
OwnerOf(folder) ==
  FOLDER_BINDING_MAP[CHOOSE i \in 1..Len(FOLDER_BINDING_MAP) :
                       FOLDER_BINDING_MAP[i][1] = folder][2]
\* the tools that route by folder
RoutingTools == {"email_folder_stats", "email_store"}
InRouting == pc # "ready" /\ call.tool \in RoutingTools
\* the finished invocation ran to its last return statement
Completed ==
  /\ pc = "done"
  /\ failed = {}
  /\ CASE call.tool = "email_store" -> BodyWritten
       [] call.tool = "pipeline_status" -> TRUE
       [] call.tool = "kv_keys_bulk_get" ->
            /\ SchemaAccepts(call.keys)
            /\ ~resolveKV(env, call.namespace).threw
            /\ (kv.t = "kv" \/ call.keys = <<>>)
       [] call.tool = "kv_key_get" ->
            /\ issued # {}
            /\ call.key \in DOMAIN store[kv.v]
       [] OTHER -> issued # {}

\* the tools that run listAllKeys
ListingTools == {"kv_keys_count", "email_folder_stats"}
\* the reserved namespaces the scan leaves out
ReservedNames == {"email-bodies", "bridge-accounts"}
\* the registered names the scan has gone past that are not reserved, in order
ScannedOpen ==
  SelectSeq(SubSeq(NamespaceNames, 1, idx - 1), LAMBDA n : n \notin ReservedNames)
\* a caller pages through kv_keys_list: it starts at cursor cur, hands every
\* cursor it is given to the next call, and stops at a null cursor; the keys
\* it has received, in order (fuel bounds the number of calls)
RECURSIVE Walk(_, _, _, _, _, _)
Walk(b, prefix, limit, cur, acc, fuel) ==
  IF fuel = 0 THEN acc
  ELSE LET p == ListPayload(KVList(store, b, prefix, cur, limit, senv)) IN
       IF p.cursor.t = "null" THEN acc \o p.keys
       ELSE Walk(b, prefix, limit, p.cursor.v, acc \o p.keys, fuel - 1)
\* calls a caller needs at most: one per key, and one for an empty listing
WalkFuel == Cardinality(Keys) + 1

\* the names a namespaces_list payload lists, category after category
RECURSIVE ListedNames(_)
ListedNames(cats) ==
  IF cats = <<>> THEN <<>> ELSE Head(cats)[2] \o ListedNames(Tail(cats))
\* the tools that only read
ReadTools ==
  {"kv_key_get", "kv_keys_bulk_get", "kv_keys_list", "kv_keys_count",
   "email_folder_stats", "pipeline_status", "namespaces_list", "email_list_folders"}
\* the tools that write one key of one namespace
KeyWriteTools == {"kv_key_put", "kv_key_delete"}
\* namespace b is the same in this state and the next, but for the keys in ks
SameBut(b, ks) ==
  /\ (DOMAIN store'[b]) \ ks = (DOMAIN store[b]) \ ks
  /\ \A k \in (DOMAIN store[b]) \ ks : store'[b][k] = store[b][k]

(***************************************************************************)
(* C1: when email_store for a mapped folder has written the metadata and   *)
(* the body write fails, the call ends as an error and the metadata entry  *)
(* is still in the folder's namespace, referencing the body key.           *)
(***************************************************************************)
C1_DanglingMetadataKept ==
  (pc = "done" /\ MetadataWritten /\ ~BodyWritten) =>
    /\ result.isError
    /\ call.key \in DOMAIN store[kv.v]
    /\ store[kv.v][call.key].value = call.value
    /\ store[kv.v][call.key].metadata.t = "meta"
    /\ store[kv.v][call.key].metadata.body_uuid = call.body_key
    /\ store[kv.v][call.key].metadata.folder = call.folder

\* the body store is bound and threw; the body key is absent
C1_Witness ==
  /\ pc = "done" /\ MetadataWritten /\ ~BodyWritten
  /\ Called("put", BodiesBinding) \in failed
  /\ call.body_key \notin DOMAIN store[BodiesBinding]
  /\ call.key \in DOMAIN store[kv.v]

(***************************************************************************)
(* C2: email_store for a folder that is not in FOLDER_BINDING_MAP ends     *)
(* with the not-mapped error and issues no store write.                    *)
(***************************************************************************)
C2_UnmappedWritesNothing ==
  (InEmailStore /\ call.folder \notin FolderNames) =>
    /\ pc = "done"
    /\ result = ToolError("NotMapped", NoPayload)
    /\ issued = {}

(***************************************************************************)
(* C3: kv_keys_bulk_get with at most 100 keys on a resolved namespace      *)
(* returns an entry for every requested key, whether or not reads failed.  *)
(***************************************************************************)
C3_EveryKeyHasEntry ==
  (pc = "done" /\ InBulkGet /\ Len(call.keys) <= BulkMax /\ kv.t = "kv") =>
    /\ ~result.isError
    /\ result.payload.t = "results"
    /\ DOMAIN result.payload.results = Range(call.keys)

(***************************************************************************)
(* C4: when listAllKeys returns from a store that reports completion, it   *)
(* holds exactly the N matching keys, none twice, after ceil(N/P) list     *)
(* calls -- as claimed, for every N >= 0.                                  *)
(***************************************************************************)
C4_ListAllExactCalls ==
  (pc = "listed" /\ ~senv.stuck) =>
    LET n == Cardinality(Matching(kv.v, call.prefix)) IN
    /\ Range(all) = Matching(kv.v, call.prefix)
    /\ IsSet(all)
    /\ Len(all) = n
    /\ pages = CeilDiv(n, PageSize)

(***************************************************************************)
(* C4, amended: the same, with one list call for an empty listing:         *)
(* ceil(N/P) calls when N >= 1, exactly one call when N = 0.               *)
(***************************************************************************)
C4_ListAllExactCallsAtLeastOne ==
  (pc = "listed" /\ ~senv.stuck) =>
    LET n == Cardinality(Matching(kv.v, call.prefix)) IN
    /\ Range(all) = Matching(kv.v, call.prefix)
    /\ IsSet(all)
    /\ Len(all) = n
    /\ pages = IF n = 0 THEN 1 ELSE CeilDiv(n, PageSize)

\* three keys listed in two pages of two
C4_Witness ==
  /\ pc = "listed" /\ ~senv.stuck
  /\ Len(all) = 3 /\ PageSize = 2 /\ pages = 2

(***************************************************************************)
(* C5: listAllKeys always terminates: once it is paging it eventually      *)
(* stops, also against a store that never reports completion.              *)
(***************************************************************************)
C5_ListAllTerminates == InListAll ~> ~InListAll

(***************************************************************************)
(* C6: pipeline_status goes on past a failing probe: every namespace the   *)
(* scan has passed has an entry, -1 where the probe threw and the count of *)
(* its own probe otherwise, and the scan ends with a result, not an error. *)
(***************************************************************************)
C6_ScanContinuesPastFailure ==
  InScan =>
    /\ \A name \in Scanned :
         ~Excluded(name) =>
           /\ name \in DOMAIN stats
           /\ IF Called("list", BindingOf(name)) \in failed
              THEN stats[name] = -1
              ELSE stats[name] =
                     ProbeCount(KVList(store, BindingOf(name), <<>>, <<>>, ProbeLimit, senv))
    /\ pc = "done" =>
         /\ ~result.isError
         /\ result.payload.namespace_counts = stats
         /\ DOMAIN stats = {n \in RegisteredNames : ~Excluded(n)}

\* a probe threw, and a namespace scanned after it reports its count
C6_Witness ==
  /\ InScan /\ pc = "done"
  /\ Called("list", "KV_CHANCERY") \in failed
  /\ Called("list", "KV_LIU") \notin failed
  /\ NumKeys("KV_LIU") = 1
  /\ stats["chancery"] = -1
  /\ stats["liu"] = 1

(***************************************************************************)
(* C7: for every scanned namespace whose probe did not throw,              *)
(* pipeline_status reports 1 for exactly one key, 0 for no key and -1 for  *)
(* two or more keys.                                                       *)
(***************************************************************************)
C7_ScanCounts ==
  InScan =>
    \A name \in Scanned :
      (~Excluded(name) /\ Called("list", BindingOf(name)) \notin failed) =>
        /\ name \in DOMAIN stats
        /\ NumKeys(BindingOf(name)) = 1 => stats[name] = 1
        /\ NumKeys(BindingOf(name)) = 0 => stats[name] = 0
        /\ NumKeys(BindingOf(name)) >= 2 => stats[name] = -1

\* a namespace with two or more keys reported -1, an empty one 0
C7_Witness ==
  /\ InScan /\ pc = "done"
  /\ failed = {}
  /\ NumKeys("KV_LIU") >= 2
  /\ stats["liu"] = -1
  /\ stats["hk-law"] = 0

(***************************************************************************)
(* C8: kv_keys_bulk_get with more than 100 keys ends with TooManyKeys and  *)
(* issues no store call.                                                   *)
(***************************************************************************)
C8_TooManyKeysNoStoreCall ==
  (InBulkGet /\ Len(call.keys) > BulkMax) =>
    /\ pc = "done"
    /\ result.isError
    /\ result.error = "TooManyKeys"
    /\ issued = {}
    /\ pending = EmptyMap

C8_Witness ==
  /\ InBulkGet /\ Len(call.keys) = BulkMax + 1
  /\ pc = "done" /\ result.error = "TooManyKeys" /\ issued = {}

(***************************************************************************)
(* C9: a tool whose namespace argument is neither a bound identifier nor a *)
(* registered name ends with the UnknownNamespace error listing every      *)
(* registered name, without a store call.                                  *)
(***************************************************************************)
C9_UnknownNamespaceFails ==
  (Resolved /\ call.namespace \notin env /\ call.namespace \notin RegisteredNames) =>
    /\ pc = "done"
    /\ result = ToolThrew("UnknownNamespace",
                          [t |-> "available", names |-> NamespaceNames])
    /\ issued = {}

(***************************************************************************)
(* C10: after a completed put(k, v) a get of k in the same namespace       *)
(* returns v, after a completed delete(k) it returns not-found, and a get  *)
(* returns what the namespace holds under k.                               *)
(***************************************************************************)
C10_RoundTrip ==
  (pc = "done" /\ ~result.isError) =>
    /\ call.tool = "kv_key_put" =>
         GetNow(call.namespace, call.key) = ToolOk([t |-> "text", v |-> call.value])
    /\ call.tool = "kv_key_delete" =>
         /\ GetNow(call.namespace, call.key).isError
         /\ GetNow(call.namespace, call.key).error = "NotFound"
    /\ call.tool = "kv_key_get" =>
         /\ call.key \in DOMAIN store[kv.v]
         /\ result.payload.v = store[kv.v][call.key].value

\* a put of "v" completed in a namespace that holds another key as well
C10_Witness ==
  /\ pc = "done" /\ ~result.isError
  /\ call.tool = "kv_key_put" /\ call.value = "v"
  /\ NumKeys(kv.v) >= 2
  /\ store[kv.v][call.key].value = "v"

(***************************************************************************)
(* C11: the registered names resolve to pairwise distinct stores: while    *)
(* the server waits for a request, every registered name resolves and the  *)
(* names resolve to as many stores as there are names; a tool called with  *)
(* a registered name touches only that name's store, which no other name   *)
(* resolves to.                                                            *)
(***************************************************************************)
C11_NamesResolveToDistinctStores ==
  /\ pc = "ready" =>
       /\ \A n \in RegisteredNames :
            ~resolveKV(env, n).threw /\ resolveKV(env, n).value.t = "kv"
       /\ Cardinality({resolveKV(env, n).value.v : n \in RegisteredNames})
            = Len(NAMESPACE_MAP)
       /\ Cardinality(RegisteredNames) = Len(NAMESPACE_MAP)
  /\ (Resolved /\ call.namespace \in RegisteredNames) =>
       /\ kv = resolveKV(env, call.namespace).value
       /\ \A c \in issued : c.binding = kv.v
       /\ \A m \in RegisteredNames \ {call.namespace} :
            resolveKV(env, m).value.v # kv.v

\* a put through the name "liu" landed in one store and in no other name's
C11_Witness ==
  /\ pc = "done" /\ call.tool = "kv_key_put" /\ call.namespace = "liu"
  /\ ~result.isError
  /\ call.key \in DOMAIN store[kv.v]
  /\ \A m \in RegisteredNames \ {"liu"} :
       call.key \notin DOMAIN store[resolveKV(env, m).value.v]

(***************************************************************************)
(* C12: resolveKV takes a bound identifier as it is, and a registered name *)
(* through NAMESPACE_MAP; the table is consulted only when the input is    *)
(* not a bound identifier, so an input bound under its own name resolves   *)
(* to that binding even if it is a registered name as well.  (The function *)
(* is evaluated while the server waits for a request.)                     *)
(***************************************************************************)
C12_RawIdentifierThenName ==
  /\ pc = "ready" =>
       /\ \A b \in env : resolveKV(env, b) = Returned(JSKV(b))
       /\ \A n \in RegisteredNames :
            /\ (n \notin env /\ BindingOf(n) \in env) =>
                 resolveKV(env, n) = Returned(JSKV(BindingOf(n)))
            /\ resolveKV(env \cup {n}, n) = Returned(JSKV(n))
  /\ Resolved =>
       /\ call.namespace \in env => kv = JSKV(call.namespace)
       /\ (call.namespace \in RegisteredNames /\ call.namespace \notin env) =>
            kv = JSKV(BindingOf(call.namespace))

\* a read through a bound identifier that no registered name leads to
C12_Witness ==
  /\ pc = "done" /\ call.tool = "kv_key_get" /\ call.namespace = BodiesBinding
  /\ BodiesBinding \in env
  /\ \A n \in RegisteredNames : BindingOf(n) # BodiesBinding
  /\ kv = JSKV(BodiesBinding)
  /\ ~result.isError

(***************************************************************************)
(* C13: email_folder_stats and email_store decide ownership alike: the     *)
(* table has one entry per folder; for a folder of the table either tool   *)
(* works on the namespace of that entry (and the writer on the bodies      *)
(* namespace besides); for any other folder neither tool touches a store,  *)
(* and either reports it as not mapped exactly when the other would; every *)
(* entry the writer stored lies in the namespace the stats tool counts for *)
(* its folder.                                                             *)
(***************************************************************************)
C13_SameOwnership ==
  /\ Cardinality(FolderNames) = Len(FOLDER_BINDING_MAP)
  /\ \A b \in AllBindings : \A k \in DOMAIN store[b] :
       store[b][k].metadata.t = "meta" => b = OwnerOf(store[b][k].metadata.folder)
  /\ InRouting =>
       IF call.folder \in FolderNames
       THEN /\ kv = JSKV(OwnerOf(call.folder))
            /\ result.error # "NotMapped"
            /\ \A c \in issued :
                 \/ c.binding = OwnerOf(call.folder)
                 \/ call.tool = "email_store" /\ c.binding = BodiesBinding
       ELSE /\ kv = JSUndefined
            /\ issued = {}
            /\ pc = "done" =>
                 (result.error = "NotMapped" <=> call.folder \notin ObjectPrototypeKeys)

\* the stats tool counts, for a folder, the entry the writer stored for it
C13_Witness ==
  /\ pc = "done" /\ call.tool = "email_folder_stats" /\ call.folder = "Labels/Liu"
  /\ ~result.isError
  /\ result.payload.emailCount = 1
  /\ \E k \in DOMAIN store[kv.v] :
       /\ store[kv.v][k].metadata.t = "meta"
       /\ store[kv.v][k].metadata.folder = "Labels/Liu"

(***************************************************************************)
(* C14: success and error are told apart by the error flag: a get of an    *)
(* absent key, and a stats or store request for a folder that is not in    *)
(* the table, end with the flag set; every invocation that ran to its last *)
(* return has the flag unset, a get of a stored empty string included; the *)
(* flag is set exactly when the result names an error.                     *)
(***************************************************************************)
C14_ErrorFlagExplicit ==
  pc = "done" =>
    /\ (call.tool = "kv_key_get" /\ kv.t = "kv" /\ failed = {}) =>
         IF call.key \in DOMAIN store[kv.v]
         THEN /\ ~result.isError
              /\ result.payload.v = store[kv.v][call.key].value
         ELSE result.isError /\ result.error = "NotFound"
    /\ (call.tool \in RoutingTools /\ call.folder \notin FolderNames) => result.isError
    /\ Completed => ~result.isError
    /\ result.isError <=> result.error # ""

\* a get of a key that holds the empty string succeeds with an empty text
C14_Witness ==
  /\ pc = "done" /\ call.tool = "kv_key_get" /\ kv.t = "kv" /\ failed = {}
  /\ call.key \in DOMAIN store[kv.v]
  /\ store[kv.v][call.key].value = ""
  /\ ~result.isError
  /\ result.payload.v = ""

(***************************************************************************)
(* C15: every email_store for a folder of the table issues both puts, the  *)
(* metadata put to the folder's namespace and the body put to the bodies   *)
(* namespace, whatever the outcome of the other.                           *)
(***************************************************************************)
C15_BothWritesAttempted ==
  (pc = "done" /\ InEmailStore /\ call.folder \in FolderNames) =>
    /\ Called("put", OwnerOf(call.folder)) \in issued
    /\ Called("put", BodiesBinding) \in issued

(***************************************************************************)
(* C16: email_store writes the metadata first and the body second: the     *)
(* body put is issued only after the metadata put has completed, so while  *)
(* the metadata put is pending nothing has been written, and once the body *)
(* put is issued the metadata entry is in the folder's namespace.          *)
(***************************************************************************)
C16_MetadataBeforeBody ==
  InEmailStore =>
    /\ pc = "put_metadata" => issued = {}
    /\ pc = "put_body" =>
         MetadataWritten /\ Called("put", BodiesBinding) \notin issued
    /\ Called("put", BodiesBinding) \in issued =>
         /\ MetadataWritten
         /\ call.key \in DOMAIN store[kv.v]
         /\ store[kv.v][call.key].value = call.value
         /\ store[kv.v][call.key].metadata.body_uuid = call.body_key

\* both puts completed: the body entry exists and so does its metadata entry
C16_Witness ==
  /\ pc = "done" /\ InEmailStore /\ ~result.isError
  /\ MetadataWritten /\ BodyWritten
  /\ call.body_key \in DOMAIN store[BodiesBinding]
  /\ call.key \in DOMAIN store[kv.v]

(***************************************************************************)
(* C17: listAllKeys threads the cursor: its first list call carries no     *)
(* cursor, every later one carries the cursor the page before it returned, *)
(* with the prefix of the invocation, and the loop is left without an      *)
(* exception only after a page the store reported complete.                *)
(***************************************************************************)
C17_CursorThreaded ==
  /\ pc = "listing" =>
       /\ lastList.prefix = call.prefix
       /\ IF pages = 1
          THEN lastList.sent = <<>>
          ELSE /\ lastList.sent = lastList.returned
               /\ lastList.sent # <<>>
               /\ ~lastList.complete
  /\ (pc = "listAll" /\ pages > 0) =>
       ~lastList.complete /\ cursor = lastList.returned
  /\ pc = "listed" => lastList.complete
  /\ (pc = "done" /\ call.tool \in ListingTools /\ ~result.isError) =>
       lastList.complete

\* a listing of three keys ended on its second page, asked for with a cursor
C17_Witness ==
  /\ pc = "listed"
  /\ pages = 2
  /\ lastList.sent # <<>>
  /\ lastList.complete
  /\ Len(all) = 3

(***************************************************************************)
(* C18: pipeline_status issues one list call with limit 1, no prefix and   *)
(* no cursor to each registered namespace that is not reserved, in table   *)
(* order, and no other store call; it never runs listAllKeys; its result   *)
(* has an entry for exactly the registered names that are not reserved.    *)
(***************************************************************************)
C18_OneProbePerNamespace ==
  InScan =>
    /\ Len(probes) = Len(ScannedOpen)
    /\ \A i \in 1..Len(probes) :
         /\ probes[i].binding = BindingOf(ScannedOpen[i])
         /\ probes[i].limit = 1
         /\ probes[i].cursor = <<>>
         /\ probes[i].prefix = <<>>
    /\ Cardinality({probes[i].binding : i \in 1..Len(probes)}) = Len(probes)
    /\ issued = {Called("list", probes[i].binding) : i \in 1..Len(probes)}
    /\ \A n \in RegisteredNames \cap ReservedNames :
         \A c \in issued : c.binding # BindingOf(n)
    /\ pages = 0 /\ lastList = NoList /\ all = <<>>
    /\ pc = "done" =>
         /\ ~result.isError
         /\ DOMAIN result.payload.namespace_counts = RegisteredNames \ ReservedNames
         /\ Len(probes) = Cardinality(RegisteredNames \ ReservedNames)

\* a namespace holding more than one page was probed once, like the others
C18_Witness ==
  /\ InScan /\ pc = "done"
  /\ NumKeys("KV_LIU") = Cardinality(Keys)
  /\ Len(probes) = Len(NAMESPACE_MAP) - 1
  /\ "bridge-accounts" \notin DOMAIN result.payload.namespace_counts
  /\ Called("list", "BRIDGE_ACCOUNTS") \notin issued

C20_ListPages ==
  (pc = "done" /\ call.tool = "kv_keys_list" /\ kv.t = "kv") =>
    /\ ~result.isError =>
         LET p == result.payload
             page == KVList(store, kv.v, call.prefix, call.cursor, call.limit, senv)
         IN /\ p.cursor.t = "null" <=> p.list_complete
            /\ ~p.list_complete =>
                 /\ p.cursor.t = "string"
                 /\ p.cursor.v = page.cursor
                 /\ p.cursor.v # <<>>
            /\ p.count = Len(p.keys)
            /\ p.keys = page.keys
    /\ ~senv.stuck =>
         LET got == Walk(kv.v, call.prefix, call.limit, <<>>, <<>>, WalkFuel)
         IN /\ IsSet(got)
            /\ Range(got) = Matching(kv.v, call.prefix)

\* a middle page: asked for with a cursor, one key, not complete, a cursor back
C20_Witness ==
  /\ pc = "done" /\ call.tool = "kv_keys_list" /\ ~result.isError
  /\ call.cursor # <<>>
  /\ result.payload.count = 1
  /\ ~result.payload.list_complete
  /\ result.payload.cursor.t = "string"
  /\ ~senv.stuck

(***************************************************************************)
(* C21: when email_store reports success both puts have completed: the     *)
(* folder's namespace holds the metadata value under the metadata key,     *)
(* with side metadata naming the folder and the body key, and the bodies   *)
(* namespace holds the body under that body key.                           *)
(***************************************************************************)
C21_SuccessMeansBothWritten ==
  (pc = "done" /\ InEmailStore /\ ~result.isError) =>
    /\ kv = JSKV(OwnerOf(call.folder))
    /\ Called("put", kv.v) \in issued \ failed
    /\ Called("put", BodiesBinding) \in issued \ failed
    /\ call.key \in DOMAIN store[kv.v]
    /\ store[kv.v][call.key].value = call.value
    /\ store[kv.v][call.key].metadata.t = "meta"
    /\ store[kv.v][call.key].metadata.folder = call.folder
    /\ store[kv.v][call.key].metadata.body_uuid = call.body_key
    /\ call.body_key \in DOMAIN store[BodiesBinding]
    /\ store[BodiesBinding][call.body_key].value = call.body
    /\ result.payload.metadata_key = call.key
    /\ result.payload.body_key = call.body_key

\* success reported, with the body under the key the metadata entry names
C21_Witness ==
  /\ pc = "done" /\ InEmailStore /\ ~result.isError
  /\ result.payload.success
  /\ store[BodiesBinding][store[kv.v][call.key].metadata.body_uuid].value = call.body
  /\ store[BodiesBinding][call.body_key].metadata.t = "body"

(***************************************************************************)
(* C22: the result of namespaces_list agrees with the registry: its total  *)
(* is the number of names it lists, and resolveKV accepts every name it    *)
(* lists.                                                                  *)
(***************************************************************************)
C22_DiscoveryConsistent ==
  (pc = "done" /\ call.tool = "namespaces_list") =>
    LET names == ListedNames(result.payload.categories) IN
    /\ result.payload.total = Len(names)
    /\ \A i \in 1..Len(names) :
         /\ ~resolveKV(env, names[i]).threw
         /\ resolveKV(env, names[i]).value.t = "kv"

(***************************************************************************)
(* C23: operations change only what they name: no step changes env; a step *)
(* of kv_key_put or kv_key_delete changes at most the entry under its key  *)
(* in the resolved namespace; a step of a reading tool changes no          *)
(* namespace and issues no put or delete; a step that changes a namespace  *)
(* belongs to kv_key_put, kv_key_delete or email_store.                    *)
(***************************************************************************)
C23_FrameEffects ==
  [][/\ env' = env
     /\ call'.tool \in KeyWriteTools =>
          \A b \in AllBindings :
            IF kv'.t = "kv" /\ b = kv'.v
            THEN SameBut(b, {call'.key})
            ELSE store'[b] = store[b]
     /\ call'.tool \in ReadTools =>
          /\ store' = store
          /\ \A c \in issued' : c.op \notin {"put", "delete"}
     /\ store' # store => call'.tool \in KeyWriteTools \cup {"email_store"}
    ]_vars

\* a delete removed its key from a namespace that keeps another key, while
\* the bodies namespace keeps its entry
C23_Witness ==
  /\ pc = "done" /\ call.tool = "kv_key_delete" /\ ~result.isError
  /\ call.key \notin DOMAIN store[kv.v]
  /\ NumKeys(kv.v) >= 1
  /\ NumKeys(BodiesBinding) >= 1

=============================================================================
